---- MODULE Spec2Model ----
(***************************************************************************)
(* A model of the 6502 interpreter of src/src/cpu.rs: the CPU struct, its  *)
(* memory block, the addressing resolver, the instruction handlers and the *)
(* dispatch loop of run_with_callback, driven by a caller that loads a     *)
(* program, resets, assigns the public fields and runs.                    *)
(***************************************************************************)
EXTENDS Integers, Sequences, FiniteSets, TLC

(***************************************************************************)
(* Bounds of the exploration.                                              *)
(***************************************************************************)
MaxSteps == 5
MaxPokes == 1

(***************************************************************************)
(* Program constants.                                                      *)
(***************************************************************************)
CARRY == 1
ZERO == 2
INTERRUPT_DISABLE == 4
DECIMAL_MODE == 8
BREAK == 16
UNUSED == 32
OVERFLOW == 64
NEGATIVE == 128

STACK == 256
STACK_RESET == 253
MemorySize == 65535
ProgramBase == 1536
ResetVector == 65532
InitialStatus == 36

U8 == 256
U16 == 65536

(***************************************************************************)
(* Bitwise operations on naturals, bit by bit.                             *)
(***************************************************************************)
RECURSIVE BitAnd(_, _)
BitAnd(x, y) ==
    IF x = 0 \/ y = 0 THEN 0
    ELSE (x % 2) * (y % 2) + 2 * BitAnd(x \div 2, y \div 2)

RECURSIVE BitOr(_, _)
BitOr(x, y) ==
    IF x = 0 THEN y
    ELSE IF y = 0 THEN x
    ELSE (IF x % 2 = 1 \/ y % 2 = 1 THEN 1 ELSE 0) + 2 * BitOr(x \div 2, y \div 2)

RECURSIVE BitXor(_, _)
BitXor(x, y) ==
    IF x = 0 THEN y
    ELSE IF y = 0 THEN x
    ELSE ((x + y) % 2) + 2 * BitXor(x \div 2, y \div 2)

(***************************************************************************)
(* CPUFlags: contains / insert / remove / set on the status byte.          *)
(***************************************************************************)
contains(bits, flag) == BitAnd(bits, flag) = flag
insert(bits, flag) == BitOr(bits, flag)
remove(bits, flag) == BitAnd(bits, 255 - flag)
set(bits, flag, value) == IF value THEN insert(bits, flag) ELSE remove(bits, flag)
from_bits_truncate(bits) == BitAnd(bits, 255)

(***************************************************************************)
(* The state.  The first seven variables are the fields of CPU.  memory is *)
(* the 0xFFFF-byte array, kept as the function from the addresses holding  *)
(* a non-zero byte to that byte (every other cell holds 0).                *)
(***************************************************************************)
VARIABLES
    register_a, register_x, register_y, status, program_counter,
    stack_pointer, memory,
    run_state,        \* "Idle", "Running" (inside run), "Halted", "Panicked"
    panic,            \* the panic that ended the run, if any
    overflow_checks,  \* the build: TRUE = arithmetic overflow panics (debug)
    pre,              \* the CPU as it was before the last operation
    last_call,        \* the last operation: "new", "load", "reset", ...
    last_code,        \* the opcode byte fetched by the last step, or -1
    prev_code,        \* last_code as it was before the last operation
    loaded,           \* load has been called on this CPU
    steps, pokes,
    loaded_program,   \* the program passed to load, <<>> before
    hook,             \* the callback of the current run
    stack_value,      \* the value passed to or returned by the last stack call
    last_jsr          \* the address and the stack pointer of the last JSR

vars == <<register_a, register_x, register_y, status, program_counter,
          stack_pointer, memory, run_state, panic, overflow_checks,
          pre, last_call, last_code, prev_code, loaded, steps, pokes,
          loaded_program, hook, stack_value, last_jsr>>

NoJsr == [at |-> 0 - 1, sp |-> 0 - 1]

NoPanic == [kind |-> "none", code |-> 0]

(***************************************************************************)
(* Sentinels returned in place of a value by an expression that panics.    *)
(***************************************************************************)
IndexOutOfBounds == 0 - 1
AddOverflow == 0 - 2
ModeNotSupported == 0 - 3

PanicKind(e) ==
    CASE e = IndexOutOfBounds -> "index out of bounds"
      [] e = AddOverflow -> "attempt to add with overflow"
      [] e = ModeNotSupported -> "mode not supported"

Fail(c, e) == [c EXCEPT !.panic = [kind |-> PanicKind(e), code |-> 0]]

(***************************************************************************)
(* u16 addition as the build compiles it: a panic with overflow checks,    *)
(* a wrap without.                                                         *)
(***************************************************************************)
add_u16(x, y) ==
    IF x < 0 THEN x
    ELSE IF x + y < U16 THEN x + y
    ELSE IF overflow_checks THEN AddOverflow
    ELSE (x + y) % U16

(***************************************************************************)
(* Memory.                                                                 *)
(***************************************************************************)
EmptyMemory == [addr \in {} |-> 0]

MemAt(m, addr) == IF addr \in DOMAIN m THEN m[addr] ELSE 0

MemPut(m, addr, value) ==
    [x \in (IF value = 0 THEN (DOMAIN m) \ {addr} ELSE (DOMAIN m) \cup {addr})
        |-> IF x = addr THEN value ELSE m[x]]

mem_read(c, addr) ==
    IF addr < 0 THEN addr
    ELSE IF addr >= MemorySize THEN IndexOutOfBounds
    ELSE MemAt(c.memory, addr)

mem_write(c, addr, value) ==
    IF c.panic # NoPanic THEN c
    ELSE IF addr < 0 THEN Fail(c, addr)
    ELSE IF addr >= MemorySize THEN Fail(c, IndexOutOfBounds)
    ELSE [c EXCEPT !.memory = MemPut(c.memory, addr, value)]

mem_read_u16(c, pos) ==
    LET lo == mem_read(c, pos)
        hi == mem_read(c, add_u16(pos, 1))
    IN  IF lo < 0 THEN lo
        ELSE IF hi < 0 THEN hi
        ELSE hi * 256 + lo

mem_write_u16(c, pos, data) ==
    LET hi == data \div 256
        lo == data % 256
    IN  mem_write(mem_write(c, pos, lo), add_u16(pos, 1), hi)

(***************************************************************************)
(* The opcode metadata table (crate::opcodes): addressing mode and encoded *)
(* length of every supported opcode byte.                                  *)
(***************************************************************************)
ImmediateCodes == {169, 162, 160, 105, 233, 41, 73, 9, 201, 192, 224}
ZeroPageCodes ==
    {165, 166, 164, 133, 134, 132, 101, 229, 37, 69, 5, 197, 196, 228, 36,
     6, 70, 38, 102, 230, 198}
ZeroPageXCodes ==
    {181, 180, 149, 148, 117, 245, 53, 85, 21, 213, 22, 86, 54, 118, 246, 214}
ZeroPageYCodes == {182, 150}
AbsoluteCodes ==
    {173, 174, 172, 141, 142, 140, 109, 237, 45, 77, 13, 205, 204, 236, 44,
     14, 78, 46, 110, 238, 206}
AbsoluteXCodes ==
    {189, 188, 157, 125, 253, 61, 93, 29, 221, 30, 94, 62, 126, 254, 222}
AbsoluteYCodes == {185, 190, 153, 121, 249, 57, 89, 25, 217}
IndirectXCodes == {161, 129, 97, 225, 33, 65, 1, 193}
IndirectYCodes == {177, 145, 113, 241, 49, 81, 17, 209}
ImpliedCodes ==
    {0, 170, 232, 216, 88, 184, 24, 56, 120, 248, 72, 104, 8, 40, 74, 10, 42,
     106, 200, 202, 136, 96, 64, 234, 168, 186, 138, 154, 152}
BranchCodes == {208, 112, 80, 16, 48, 240, 176, 144}
JumpCodes == {76, 108, 32}

OPCODES_MAP ==
    ImmediateCodes \cup ZeroPageCodes \cup ZeroPageXCodes \cup ZeroPageYCodes
    \cup AbsoluteCodes \cup AbsoluteXCodes \cup AbsoluteYCodes
    \cup IndirectXCodes \cup IndirectYCodes
    \cup ImpliedCodes \cup BranchCodes \cup JumpCodes

OpMode(code) ==
    CASE code \in ImmediateCodes -> "Immediate"
      [] code \in ZeroPageCodes -> "ZeroPage"
      [] code \in ZeroPageXCodes -> "ZeroPage_X"
      [] code \in ZeroPageYCodes -> "ZeroPage_Y"
      [] code \in AbsoluteCodes -> "Absolute"
      [] code \in AbsoluteXCodes -> "Absolute_X"
      [] code \in AbsoluteYCodes -> "Absolute_Y"
      [] code \in IndirectXCodes -> "Indirect_X"
      [] code \in IndirectYCodes -> "Indirect_Y"
      [] OTHER -> "NoneAddressing"

OpLen(code) ==
    CASE code \in ImpliedCodes -> 1
      [] code \in ImmediateCodes \cup ZeroPageCodes \cup ZeroPageXCodes
                  \cup ZeroPageYCodes \cup IndirectXCodes \cup IndirectYCodes
                  \cup BranchCodes -> 2
      [] OTHER -> 3

(***************************************************************************)
(* The addressing resolver.                                                *)
(***************************************************************************)
get_operand_address(c, mode) ==
    LET pc == c.program_counter
        zp == mem_read(c, pc)
        abs == mem_read_u16(c, pc)
    IN  CASE mode = "Immediate" -> pc
          [] mode = "ZeroPage" -> zp
          [] mode = "ZeroPage_X" ->
                IF zp < 0 THEN zp ELSE (zp + c.register_x) % U8
          [] mode = "ZeroPage_Y" ->
                IF zp < 0 THEN zp ELSE (zp + c.register_y) % U8
          [] mode = "Absolute" -> abs
          [] mode = "Absolute_X" ->
                IF abs < 0 THEN abs ELSE (abs + c.register_x) % U16
          [] mode = "Absolute_Y" ->
                IF abs < 0 THEN abs ELSE (abs + c.register_y) % U16
          [] mode = "Indirect_X" ->
                IF zp < 0 THEN zp
                ELSE LET ptr == (zp + c.register_x) % U8
                         lo == mem_read(c, ptr)
                         hi == mem_read(c, (ptr + 1) % U8)
                     IN  hi * 256 + lo
          [] mode = "Indirect_Y" ->
                IF zp < 0 THEN zp
                ELSE LET lo == mem_read(c, zp)
                         hi == mem_read(c, (zp + 1) % U8)
                         deref_base == hi * 256 + lo
                     IN  (deref_base + c.register_y) % U16
          [] OTHER -> ModeNotSupported

(***************************************************************************)
(* Integer conversions.                                                    *)
(***************************************************************************)
as_i8(v) == IF v >= 128 THEN v - 256 ELSE v
wrap_i8(n) == ((n + 128) % 256) - 128
as_u8(n) == n % 256
i8_as_u16(n) == n % U16

(***************************************************************************)
(* Flag helpers.                                                           *)
(***************************************************************************)
set_carry_flag(c) == [c EXCEPT !.status = insert(@, CARRY)]
clear_carry_flag(c) == [c EXCEPT !.status = remove(@, CARRY)]

update_zero_and_negative_flags(c, result) ==
    LET z == IF result = 0 THEN insert(c.status, ZERO) ELSE remove(c.status, ZERO)
        n == IF BitAnd(result, 128) # 0 THEN insert(z, NEGATIVE) ELSE remove(z, NEGATIVE)
    IN  [c EXCEPT !.status = n]

set_register_a(c, value) ==
    update_zero_and_negative_flags([c EXCEPT !.register_a = value], value)

(***************************************************************************)
(* The operand byte of an instruction with addressing mode `mode`, or the  *)
(* sentinel of the panic that reading it raises.                           *)
(***************************************************************************)
operand(c, mode) == mem_read(c, get_operand_address(c, mode))

(***************************************************************************)
(* Loads, stores, logical operations, transfers.                           *)
(***************************************************************************)
ldy(c, mode) ==
    LET data == operand(c, mode)
    IN  IF data < 0 THEN Fail(c, data)
        ELSE update_zero_and_negative_flags([c EXCEPT !.register_y = data], data)

ldx(c, mode) ==
    LET data == operand(c, mode)
    IN  IF data < 0 THEN Fail(c, data)
        ELSE update_zero_and_negative_flags([c EXCEPT !.register_x = data],
                                            c.register_y)

lda(c, mode) ==
    LET value == operand(c, mode)
    IN  IF value < 0 THEN Fail(c, value) ELSE set_register_a(c, value)

sta(c, mode) == mem_write(c, get_operand_address(c, mode), c.register_a)
stx(c, mode) == mem_write(c, get_operand_address(c, mode), c.register_x)
sty(c, mode) == mem_write(c, get_operand_address(c, mode), c.register_y)

and(c, mode) ==
    LET data == operand(c, mode)
    IN  IF data < 0 THEN Fail(c, data)
        ELSE set_register_a(c, BitAnd(data, c.register_a))

eor(c, mode) ==
    LET data == operand(c, mode)
    IN  IF data < 0 THEN Fail(c, data)
        ELSE set_register_a(c, BitXor(data, c.register_a))

ora(c, mode) ==
    LET data == operand(c, mode)
    IN  IF data < 0 THEN Fail(c, data)
        ELSE set_register_a(c, BitOr(data, c.register_a))

tax(c) ==
    update_zero_and_negative_flags([c EXCEPT !.register_x = c.register_a],
                                   c.register_a)
tay(c) ==
    update_zero_and_negative_flags([c EXCEPT !.register_y = c.register_a],
                                   c.register_a)
tsx(c) ==
    update_zero_and_negative_flags([c EXCEPT !.register_x = c.stack_pointer],
                                   c.stack_pointer)
txa(c) ==
    update_zero_and_negative_flags([c EXCEPT !.register_a = c.register_x],
                                   c.register_x)
txs(c) == [c EXCEPT !.stack_pointer = c.register_x]
tya(c) ==
    update_zero_and_negative_flags([c EXCEPT !.register_a = c.register_y],
                                   c.register_y)

(***************************************************************************)
(* Increments and decrements.                                              *)
(***************************************************************************)
\* inx that stops at 0xFF
inx_saturating(c) ==
    LET v == IF c.register_x = 255 THEN 255 ELSE c.register_x + 1
    IN  update_zero_and_negative_flags([c EXCEPT !.register_x = v], v)

inx(c) ==
    LET v == (c.register_x + 1) % U8
    IN  update_zero_and_negative_flags([c EXCEPT !.register_x = v], v)
iny(c) ==
    LET v == (c.register_y + 1) % U8
    IN  update_zero_and_negative_flags([c EXCEPT !.register_y = v], v)
dex(c) ==
    LET v == (c.register_x - 1) % U8
    IN  update_zero_and_negative_flags([c EXCEPT !.register_x = v], v)
dey(c) ==
    LET v == (c.register_y - 1) % U8
    IN  update_zero_and_negative_flags([c EXCEPT !.register_y = v], v)

inc(c, mode) ==
    LET addr == get_operand_address(c, mode)
        data == mem_read(c, addr)
        v == (data + 1) % U8
    IN  IF data < 0 THEN Fail(c, data)
        ELSE update_zero_and_negative_flags(mem_write(c, addr, v), v)

dec(c, mode) ==
    LET addr == get_operand_address(c, mode)
        data == mem_read(c, addr)
        v == (data - 1) % U8
    IN  IF data < 0 THEN Fail(c, data)
        ELSE update_zero_and_negative_flags(mem_write(c, addr, v), v)

(***************************************************************************)
(* Arithmetic with carry.                                                  *)
(***************************************************************************)
\* add_to_register_a without the carry-in
add_to_register_a_without_carry_in(c, data) ==
    LET sum == c.register_a + data
        result == sum % U8
        v == BitAnd(BitAnd(BitXor(data, result), BitXor(result, c.register_a)),
                    128) # 0
    IN  set_register_a([c EXCEPT !.status = set(@, OVERFLOW, v)], result)

add_to_register_a(c, data) ==
    LET sum == c.register_a + data
               + (IF contains(c.status, CARRY) THEN 1 ELSE 0)
        result == sum % U8
        v == BitAnd(BitAnd(BitXor(data, result), BitXor(result, c.register_a)),
                    128) # 0
    IN  set_register_a([c EXCEPT !.status = set(@, OVERFLOW, v)], result)

adc(c, mode) ==
    LET value == operand(c, mode)
    IN  IF value < 0 THEN Fail(c, value) ELSE add_to_register_a(c, value)

\* sbc adding the two's complement of the operand
sbc_adding_negated_operand(c, mode) ==
    LET data == operand(c, mode)
    IN  IF data < 0 THEN Fail(c, data)
        ELSE add_to_register_a(c, as_u8(wrap_i8(0 - as_i8(data))))

sbc(c, mode) ==
    LET data == operand(c, mode)
    IN  IF data < 0 THEN Fail(c, data)
        ELSE add_to_register_a(c, as_u8(wrap_i8(wrap_i8(0 - as_i8(data)) - 1)))

(***************************************************************************)
(* The stack.  A pop yields the CPU after the pop and the byte popped.     *)
(***************************************************************************)
\* stack_pop reading above the stack page when the stack pointer wraps
stack_pop_without_wrap(c) ==
    LET sp == (c.stack_pointer + 1) % U8
    IN  [cpu |-> [c EXCEPT !.stack_pointer = sp],
         value |-> mem_read(c, STACK + c.stack_pointer + 1)]

stack_pop(c) ==
    LET sp == (c.stack_pointer + 1) % U8
    IN  [cpu |-> [c EXCEPT !.stack_pointer = sp],
         value |-> mem_read(c, STACK + sp)]

stack_pop_u16(c) ==
    LET lo == stack_pop(c)
        hi == stack_pop(lo.cpu)
    IN  [cpu |-> hi.cpu, value |-> hi.value * 256 + lo.value]

stack_push(c, data) ==
    LET w == mem_write(c, STACK + c.stack_pointer, data)
    IN  [w EXCEPT !.stack_pointer = (@ - 1) % U8]

\* stack_push_u16 pushing the low byte first
stack_push_u16_low_first(c, data) ==
    LET hi == data \div 256
        lo == data % 256
    IN  stack_push(stack_push(c, lo), hi)

stack_push_u16(c, data) ==
    LET hi == data \div 256
        lo == data % 256
    IN  stack_push(stack_push(c, hi), lo)

pla(c) ==
    LET p == stack_pop(c)
    IN  set_register_a(p.cpu, p.value)

\* plp that leaves the popped Break bit in the live register
plp_keeping_break(c) ==
    LET p == stack_pop(c)
    IN  [p.cpu EXCEPT !.status = remove(p.value, UNUSED)]

plp(c) ==
    LET p == stack_pop(c)
    IN  [p.cpu EXCEPT !.status = remove(remove(p.value, BREAK), UNUSED)]

php(c) == stack_push(c, insert(insert(c.status, BREAK), UNUSED))

(***************************************************************************)
(* Shifts and rotates.  shl/shr are the u8 shifts by one bit.              *)
(***************************************************************************)
shl(data) == (data * 2) % U8
shr(data) == data \div 2

carry_from(c, bit) == IF bit = 1 THEN set_carry_flag(c) ELSE clear_carry_flag(c)

asl_accumulator(c) ==
    set_register_a(carry_from(c, c.register_a \div 128), shl(c.register_a))

lsr_accumulator(c) ==
    set_register_a(carry_from(c, c.register_a % 2), shr(c.register_a))

rol_accumulator(c) ==
    LET old_carry == contains(c.status, CARRY)
        data == BitOr(shl(c.register_a), IF old_carry THEN 1 ELSE 0)
    IN  set_register_a(carry_from(c, c.register_a \div 128), data)

ror_accumulator(c) ==
    LET old_carry == contains(c.status, CARRY)
        data == BitOr(shr(c.register_a), IF old_carry THEN 128 ELSE 0)
    IN  set_register_a(carry_from(c, c.register_a % 2), data)

asl(c, mode) ==
    LET addr == get_operand_address(c, mode)
        data == mem_read(c, addr)
        v == shl(data)
    IN  IF data < 0 THEN Fail(c, data)
        ELSE update_zero_and_negative_flags(
                 mem_write(carry_from(c, data \div 128), addr, v), v)

lsr(c, mode) ==
    LET addr == get_operand_address(c, mode)
        data == mem_read(c, addr)
        v == shr(data)
    IN  IF data < 0 THEN Fail(c, data)
        ELSE update_zero_and_negative_flags(
                 mem_write(carry_from(c, data % 2), addr, v), v)

rol(c, mode) ==
    LET addr == get_operand_address(c, mode)
        data == mem_read(c, addr)
        old_carry == contains(c.status, CARRY)
        v == BitOr(shl(data), IF old_carry THEN 1 ELSE 0)
    IN  IF data < 0 THEN Fail(c, data)
        ELSE update_zero_and_negative_flags(
                 mem_write(carry_from(c, data \div 128), addr, v), v)

ror(c, mode) ==
    LET addr == get_operand_address(c, mode)
        data == mem_read(c, addr)
        old_carry == contains(c.status, CARRY)
        v == BitOr(shr(data), IF old_carry THEN 128 ELSE 0)
    IN  IF data < 0 THEN Fail(c, data)
        ELSE update_zero_and_negative_flags(
                 mem_write(carry_from(c, data % 2), addr, v), v)

(***************************************************************************)
(* BIT, compares, branches.                                                *)
(***************************************************************************)
bit(c, mode) ==
    LET data == operand(c, mode)
        z == set(c.status, ZERO, BitAnd(c.register_a, data) = 0)
        n == set(z, NEGATIVE, BitAnd(data, 128) > 0)
        v == set(n, OVERFLOW, BitAnd(data, 64) > 0)
    IN  IF data < 0 THEN Fail(c, data) ELSE [c EXCEPT !.status = v]

\* compare setting Carry only when the register is greater
compare_strictly(c, mode, compare_with) ==
    LET data == operand(c, mode)
    IN  IF data < 0 THEN Fail(c, data)
        ELSE update_zero_and_negative_flags(
                 carry_from(c, IF data < compare_with THEN 1 ELSE 0),
                 (compare_with - data) % U8)

compare(c, mode, compare_with) ==
    LET data == operand(c, mode)
    IN  IF data < 0 THEN Fail(c, data)
        ELSE update_zero_and_negative_flags(
                 carry_from(c, IF data <= compare_with THEN 1 ELSE 0),
                 (compare_with - data) % U8)

branch(c, condition) ==
    IF condition
    THEN LET jump == mem_read(c, c.program_counter)
             jump_addr == (((c.program_counter + 1) % U16)
                           + i8_as_u16(as_i8(jump))) % U16
         IN  IF jump < 0 THEN Fail(c, jump)
             ELSE [c EXCEPT !.program_counter = jump_addr]
    ELSE c

(***************************************************************************)
(* Control transfers.                                                      *)
(***************************************************************************)
set_pc(c, target) ==
    IF c.panic # NoPanic THEN c
    ELSE IF target < 0 THEN Fail(c, target)
    ELSE [c EXCEPT !.program_counter = target]

jmp_absolute(c) == set_pc(c, mem_read_u16(c, c.program_counter))

jmp_indirect(c) ==
    LET mem_address == mem_read_u16(c, c.program_counter)
        lo == mem_read(c, mem_address)
        hi == mem_read(c, BitAnd(mem_address, 65280))
        indirect_ref ==
            IF mem_address < 0 THEN mem_address
            ELSE IF BitAnd(mem_address, 255) = 255
                 THEN IF lo < 0 THEN lo ELSE IF hi < 0 THEN hi ELSE hi * 256 + lo
                 ELSE mem_read_u16(c, mem_address)
    IN  set_pc(c, indirect_ref)

jsr(c) ==
    LET plus2 == add_u16(c.program_counter, 2)
        pushed == stack_push_u16(c, (plus2 - 1) % U16)
    IN  IF plus2 < 0 THEN Fail(c, plus2)
        ELSE set_pc(pushed, mem_read_u16(pushed, pushed.program_counter))

\* rts continuing at the popped address itself
rts_to_popped_address(c) ==
    LET p == stack_pop_u16(c)
    IN  set_pc(p.cpu, p.value)

rts(c) ==
    LET p == stack_pop_u16(c)
    IN  set_pc(p.cpu, add_u16(p.value, 1))

rti(c) ==
    LET p == stack_pop(c)
        restored == [p.cpu EXCEPT
                        !.status = insert(remove(p.value, BREAK), UNUSED)]
        q == stack_pop_u16(restored)
    IN  set_pc(q.cpu, q.value)

(***************************************************************************)
(* The match of run_with_callback: the handler of an opcode byte that has  *)
(* an entry in the table and is not the halting 0x00.                      *)
(***************************************************************************)
execute(c, code) ==
    LET mode == OpMode(code)
    IN  CASE code \in {169, 165, 181, 173, 189, 185, 161, 177} -> lda(c, mode)
          [] code = 170 -> tax(c)
          [] code = 232 -> inx(c)
          [] code = 216 -> [c EXCEPT !.status = remove(@, DECIMAL_MODE)]
          [] code = 88 -> [c EXCEPT !.status = remove(@, INTERRUPT_DISABLE)]
          [] code = 184 -> [c EXCEPT !.status = remove(@, OVERFLOW)]
          [] code = 24 -> clear_carry_flag(c)
          [] code = 56 -> set_carry_flag(c)
          [] code = 120 -> [c EXCEPT !.status = insert(@, INTERRUPT_DISABLE)]
          [] code = 248 -> [c EXCEPT !.status = insert(@, DECIMAL_MODE)]
          [] code = 72 -> stack_push(c, c.register_a)
          [] code = 104 -> pla(c)
          [] code = 8 -> php(c)
          [] code = 40 -> plp(c)
          [] code \in {105, 101, 117, 109, 125, 121, 97, 113} -> adc(c, mode)
          [] code \in {233, 229, 245, 237, 253, 249, 225, 241} -> sbc(c, mode)
          [] code \in {41, 37, 53, 45, 61, 57, 33, 49} -> and(c, mode)
          [] code \in {73, 69, 85, 77, 93, 89, 65, 81} -> eor(c, mode)
          [] code \in {9, 5, 21, 13, 29, 25, 1, 17} -> ora(c, mode)
          [] code = 74 -> lsr_accumulator(c)
          [] code \in {70, 86, 78, 94} -> lsr(c, mode)
          [] code = 10 -> asl_accumulator(c)
          [] code \in {6, 22, 14, 30} -> asl(c, mode)
          [] code = 42 -> rol_accumulator(c)
          [] code \in {38, 54, 46, 62} -> rol(c, mode)
          [] code = 106 -> ror_accumulator(c)
          [] code \in {102, 118, 110, 126} -> ror(c, mode)
          [] code \in {230, 246, 238, 254} -> inc(c, mode)
          [] code = 200 -> iny(c)
          [] code \in {198, 214, 206, 222} -> dec(c, mode)
          [] code = 202 -> dex(c)
          [] code = 136 -> dey(c)
          [] code \in {201, 197, 213, 205, 221, 217, 193, 209} ->
                compare(c, mode, c.register_a)
          [] code \in {192, 196, 204} -> compare(c, mode, c.register_y)
          [] code \in {224, 228, 236} -> compare(c, mode, c.register_x)
          [] code = 76 -> jmp_absolute(c)
          [] code = 108 -> jmp_indirect(c)
          [] code = 32 -> jsr(c)
          [] code = 96 -> rts(c)
          [] code = 64 -> rti(c)
          [] code = 208 -> branch(c, ~contains(c.status, ZERO))
          [] code = 112 -> branch(c, contains(c.status, OVERFLOW))
          [] code = 80 -> branch(c, ~contains(c.status, OVERFLOW))
          [] code = 16 -> branch(c, ~contains(c.status, NEGATIVE))
          [] code = 48 -> branch(c, contains(c.status, NEGATIVE))
          [] code = 240 -> branch(c, contains(c.status, ZERO))
          [] code = 176 -> branch(c, contains(c.status, CARRY))
          [] code = 144 -> branch(c, ~contains(c.status, CARRY))
          [] code \in {36, 44} -> bit(c, mode)
          [] code \in {133, 149, 141, 157, 153, 129, 145} -> sta(c, mode)
          [] code \in {134, 150, 142} -> stx(c, mode)
          [] code \in {132, 148, 140} -> sty(c, mode)
          [] code \in {162, 166, 182, 174, 190} -> ldx(c, mode)
          [] code \in {160, 164, 180, 172, 188} -> ldy(c, mode)
          [] code = 234 -> c
          [] code = 168 -> tay(c)
          [] code = 186 -> tsx(c)
          [] code = 138 -> txa(c)
          [] code = 154 -> txs(c)
          [] code = 152 -> tya(c)
          [] OTHER -> [c EXCEPT !.panic = [kind |-> "not yet implemented",
                                           code |-> code]]

(***************************************************************************)
(* One iteration of the loop of run_with_callback, after the callback:     *)
(* fetch, table lookup, handler, length-based advance.                     *)
(***************************************************************************)
\* auto_advance adding the whole encoded length
auto_advance_by_len(c, program_counter_state, code) ==
    IF c.panic # NoPanic THEN c
    ELSE IF program_counter_state = c.program_counter
    THEN set_pc(c, add_u16(c.program_counter, OpLen(code)))
    ELSE c

auto_advance(c, program_counter_state, code) ==
    IF c.panic # NoPanic THEN c
    ELSE IF program_counter_state = c.program_counter
    THEN set_pc(c, add_u16(c.program_counter, OpLen(code) - 1))
    ELSE c

\* step passing over a byte the table does not list
step_skipping_unknown(c) ==
    LET code == mem_read(c, c.program_counter)
        fetched == set_pc(c, add_u16(c.program_counter, 1))
        program_counter_state == fetched.program_counter
    IN  IF code < 0 THEN Fail(c, code)
        ELSE IF fetched.panic # NoPanic THEN fetched
        ELSE IF code \notin OPCODES_MAP THEN fetched
        ELSE IF code = 0 THEN [fetched EXCEPT !.halted = TRUE]
        ELSE auto_advance(execute(fetched, code), program_counter_state, code)

\* step taking BRK for a one-byte instruction without effect
step_running_past_brk(c) ==
    LET code == mem_read(c, c.program_counter)
        fetched == set_pc(c, add_u16(c.program_counter, 1))
        program_counter_state == fetched.program_counter
    IN  IF code < 0 THEN Fail(c, code)
        ELSE IF fetched.panic # NoPanic THEN fetched
        ELSE IF code \notin OPCODES_MAP
        THEN [fetched EXCEPT !.panic = [kind |-> "OpCode is not recognzed.",
                                        code |-> code]]
        ELSE IF code = 0 THEN fetched
        ELSE auto_advance(execute(fetched, code), program_counter_state, code)

step(c) ==
    LET code == mem_read(c, c.program_counter)
        fetched == set_pc(c, add_u16(c.program_counter, 1))
        program_counter_state == fetched.program_counter
    IN  IF code < 0 THEN Fail(c, code)
        ELSE IF fetched.panic # NoPanic THEN fetched
        ELSE IF code \notin OPCODES_MAP
        THEN [fetched EXCEPT !.panic = [kind |-> "OpCode is not recognzed.",
                                        code |-> code]]
        ELSE IF code = 0 THEN [fetched EXCEPT !.halted = TRUE]
        ELSE auto_advance(execute(fetched, code), program_counter_state, code)

(***************************************************************************)
(* The callback run() passes to run_with_callback.                         *)
(***************************************************************************)
callback(c) == c

(***************************************************************************)
(* The callbacks a caller passes to run_with_callback: the one of run, one *)
(* that counts its invocations in register_x, and one that writes the      *)
(* opcode of INX at the program counter.                                   *)
(***************************************************************************)
Callbacks == {"none", "count", "patch"}

invoke(h, c) ==
    CASE h = "none" -> callback(c)
      [] h = "count" -> [c EXCEPT !.register_x = (@ + 1) % U8]
      [] h = "patch" -> mem_write(c, c.program_counter, 232)

\* an iteration that invokes the callback after the instruction
iteration_with_late_callback(h, c) ==
    LET stepped == step(c)
    IN  IF stepped.panic # NoPanic \/ stepped.halted THEN stepped
        ELSE invoke(h, stepped)

\* one iteration of the loop: the callback, then fetch and dispatch
iteration(h, c) ==
    LET hooked == invoke(h, c)
    IN  IF hooked.panic # NoPanic THEN hooked ELSE step(hooked)

(***************************************************************************)
(* new, load, reset.                                                       *)
(***************************************************************************)
new ==
    [register_a |-> 0, register_x |-> 0, register_y |-> 0,
     stack_pointer |-> STACK_RESET, program_counter |-> 0,
     status |-> from_bits_truncate(InitialStatus),
     memory |-> EmptyMemory, panic |-> NoPanic, halted |-> FALSE]

RECURSIVE copy_from_slice(_, _, _)
copy_from_slice(m, base, program) ==
    IF program = <<>> THEN m
    ELSE copy_from_slice(MemPut(m, base, Head(program)), base + 1, Tail(program))

\* load into a zeroed memory
load_clearing_memory(c, program) ==
    mem_write_u16([c EXCEPT !.memory =
                      copy_from_slice(EmptyMemory, ProgramBase, program)],
                  ResetVector, ProgramBase)

load(c, program) ==
    mem_write_u16([c EXCEPT !.memory = copy_from_slice(@, ProgramBase, program)],
                  ResetVector, ProgramBase)

\* reset that leaves the stack pointer where it was
reset_without_stack_pointer(c) ==
    LET start == mem_read_u16(c, ResetVector)
    IN  set_pc([c EXCEPT !.register_a = 0, !.register_x = 0, !.register_y = 0,
                         !.status = from_bits_truncate(InitialStatus)],
               start)

reset(c) ==
    LET start == mem_read_u16(c, ResetVector)
    IN  set_pc([c EXCEPT !.register_a = 0, !.register_x = 0, !.register_y = 0,
                         !.stack_pointer = STACK_RESET,
                         !.status = from_bits_truncate(InitialStatus)],
               start)

\* load_and_run up to its call of run
load_and_run(c, program) == reset(load(c, program))

(***************************************************************************)
(* The caller's inputs: the programs it loads and the values it assigns to *)
(* the public fields or writes through mem_write before running.           *)
(***************************************************************************)
ByteSamples == {0, 1, 127, 128, 255}

\* LDA #a ; SEC or CLC ; ADC #b   and   LDA #200 ; ADC $10 / ADC $0600
AdcPrograms ==
    {<<169, a, k, 105, b>> : a \in ByteSamples, k \in {24, 56}, b \in ByteSamples}
    \cup {<<169, 200, 101, 16>>, <<169, 200, 109, 0, 6>>}

\* LDY #y ; LDX #x
LoadPrograms == {<<160, y, 162, x>> : y \in {0, 1, 128}, x \in {0, 1, 128}}

\* STA / LDA absolute at the top of the address space and below it
StorePrograms ==
    {<<169, 7, k, lo, hi>> : k \in {141, 173}, lo \in {254, 255}, hi \in {1, 255}}

\* flag instructions, then PHP ; PLP
StatusPrograms ==
    {<<8, 40>>, <<56, 248, 8, 24, 40>>, <<169, 128, 8, 169, 0, 40>>,
     <<8, 104>>, <<40>>}

\* LDA #v ; PHA ; PLP  and  LDA #v ; PHA ; PHA ; PHA ; RTI
RestorePrograms ==
    {<<169, v, 72, 40>> : v \in {0, 48, 207, 255}}
    \cup {<<169, v, 72, 72, 72, 64>> : v \in {0, 48, 207, 255}}

\* JMP $hhll
JumpPrograms ==
    {<<76, 0, 6>>, <<76, 1, 6>>, <<76, 2, 6>>, <<76, 3, 6>>, <<76, 4, 6, 0, 232>>,
     <<76, 254, 255>>, <<76, 255, 255>>}

\* JMP ($hhll), the first after LDA #$80 ; STA $30FF ; LDA #$40 ; STA $3000
IndirectPrograms ==
    {<<169, 128, 141, 255, 48, 169, 64, 141, 0, 48, 108, 255, 48>>,
     <<108, 3, 6, 16, 6>>, <<108, 3, 6, 1, 6>>}

\* bytes without an entry in the opcode table: 0x02, and 0xFF after LDA #5
UnknownPrograms == {<<2>>, <<169, 5, 255, 232>>}

\* Bxx d
BranchPrograms ==
    {<<k, d>> : k \in BranchCodes, d \in {0, 1, 127, 128, 254, 255}}

\* LDA #v ; PHA ; PHA ; RTS   and   JSR $0604 ; BRK ; RTS
ReturnPrograms ==
    {<<169, v, 72, 72, 96>> : v \in {0, 6, 255}}
    \cup {<<32, 4, 6, 0, 96>>, <<96>>}

\* the programs of the tests of cpu.rs
TestPrograms ==
    {<<169, 5, 0>>, <<170, 0>>, <<169, 192, 170, 232, 0>>, <<232, 232, 0>>,
     <<165, 16, 0>>}

Programs ==
    AdcPrograms \cup LoadPrograms \cup StorePrograms \cup StatusPrograms
    \cup RestorePrograms \cup JumpPrograms \cup IndirectPrograms
    \cup BranchPrograms \cup UnknownPrograms
    \cup ReturnPrograms \cup TestPrograms

(***************************************************************************)
(* Programs of instructions that fall through, ended by a BRK byte.        *)
(***************************************************************************)
Redirecting == BranchCodes \cup JumpCodes \cup {96, 64}

RECURSIVE StraightLine(_, _)
StraightLine(bytes, i) ==
    IF i > Len(bytes) THEN FALSE
    ELSE IF bytes[i] = 0 THEN i = Len(bytes)
    ELSE /\ bytes[i] \in OPCODES_MAP \ Redirecting
         /\ StraightLine(bytes, i + OpLen(bytes[i]))

\* the offset of the k-th instruction of a straight-line program, from i
RECURSIVE Offset(_, _, _)
Offset(bytes, i, k) ==
    IF k = 1 THEN i - 1 ELSE Offset(bytes, i + OpLen(bytes[i]), k - 1)

\* the number of instructions of a straight-line program, its BRK included
RECURSIVE InstructionCount(_, _)
InstructionCount(bytes, i) ==
    IF bytes[i] = 0 THEN 1 ELSE 1 + InstructionCount(bytes, i + OpLen(bytes[i]))

StraightLinePrograms ==
    {p \in {IF q[Len(q)] = 0 THEN q ELSE Append(q, 0) : q \in Programs} :
        StraightLine(p, 1) /\ InstructionCount(p, 1) <= MaxSteps}

FieldPokes ==
    {<<"register_a", 10>>, <<"register_a", 255>>, <<"register_x", 255>>,
     <<"register_y", 1>>,
     <<"status", 0>>, <<"status", 255>>, <<"status", 195>>, <<"status", 52>>,
     <<"stack_pointer", 0>>, <<"stack_pointer", 255>>, <<"stack_pointer", 1>>}

MemoryPokes == {<<16, 85>>, <<65534, 240>>, <<65534, 234>>, <<65535, 1>>}

(***************************************************************************)
(* The CPU held in the variables, and its replacement by a new value.      *)
(***************************************************************************)
Cpu ==
    [register_a |-> register_a, register_x |-> register_x,
     register_y |-> register_y, stack_pointer |-> stack_pointer,
     program_counter |-> program_counter, status |-> status,
     memory |-> memory, panic |-> NoPanic, halted |-> FALSE]

Becomes(c) ==
    /\ register_a' = c.register_a
    /\ register_x' = c.register_x
    /\ register_y' = c.register_y
    /\ stack_pointer' = c.stack_pointer
    /\ program_counter' = c.program_counter
    /\ status' = c.status
    /\ memory' = c.memory
    /\ panic' = c.panic
    /\ pre' = Cpu
    /\ prev_code' = last_code

Outcome(c) ==
    IF c.panic # NoPanic THEN "Panicked"
    ELSE IF c.halted THEN "Halted"
    ELSE "Running"

CallerHasControl == run_state \in {"Idle", "Halted"}

Init ==
    /\ register_a = new.register_a
    /\ register_x = new.register_x
    /\ register_y = new.register_y
    /\ stack_pointer = new.stack_pointer
    /\ program_counter = new.program_counter
    /\ status = new.status
    /\ memory = new.memory
    /\ run_state = "Idle"
    /\ panic = NoPanic
    /\ overflow_checks \in BOOLEAN
    /\ pre = new
    /\ last_call = "new"
    /\ last_code = 0 - 1
    /\ prev_code = 0 - 1
    /\ steps = 0
    /\ pokes = 0
    /\ loaded = FALSE
    /\ loaded_program = <<>>
    /\ hook = "none"
    /\ stack_value = 0 - 1
    /\ last_jsr = NoJsr

(***************************************************************************)
(* The caller's operations.  A CPU is loaded with one program and run      *)
(* once; the caller assigns fields and writes memory before the run, and   *)
(* may reset at any time it has control.                                   *)
(***************************************************************************)
Load(bytes) ==
    /\ CallerHasControl
    /\ ~loaded
    /\ Becomes(load(Cpu, bytes))
    /\ run_state' = IF load(Cpu, bytes).panic # NoPanic
                    THEN "Panicked" ELSE run_state
    /\ last_call' = "load"
    /\ last_code' = 0 - 1
    /\ loaded' = TRUE
    /\ loaded_program' = bytes
    /\ UNCHANGED <<overflow_checks, steps, pokes, hook, stack_value,
                   last_jsr>>

Reset ==
    /\ CallerHasControl
    /\ Becomes(reset(Cpu))
    /\ run_state' = IF reset(Cpu).panic # NoPanic THEN "Panicked" ELSE "Idle"
    /\ last_call' = "reset"
    /\ last_code' = 0 - 1
    /\ UNCHANGED <<overflow_checks, loaded, steps, pokes, loaded_program, hook,
                   stack_value,
                   last_jsr>>

Assign(field, value) ==
    /\ run_state = "Idle"
    /\ steps = 0
    /\ pokes < MaxPokes
    /\ Becomes([Cpu EXCEPT ![field] = value])
    /\ last_call' = "assign"
    /\ last_code' = 0 - 1
    /\ pokes' = pokes + 1
    /\ UNCHANGED <<run_state, overflow_checks, loaded, steps, loaded_program,
                   hook, stack_value,
                   last_jsr>>

MemWrite(addr, value) ==
    /\ run_state = "Idle"
    /\ steps = 0
    /\ pokes < MaxPokes
    /\ Becomes(mem_write(Cpu, addr, value))
    /\ run_state' = IF mem_write(Cpu, addr, value).panic # NoPanic
                    THEN "Panicked" ELSE run_state
    /\ last_call' = "mem_write"
    /\ last_code' = 0 - 1
    /\ pokes' = pokes + 1
    /\ UNCHANGED <<overflow_checks, loaded, steps, loaded_program, hook,
                   stack_value,
                   last_jsr>>

Run ==
    /\ run_state = "Idle"
    /\ steps = 0
    /\ run_state' = "Running"
    /\ hook' = "none"
    /\ last_call' = "run"
    /\ last_code' = 0 - 1
    /\ pre' = Cpu
    /\ prev_code' = last_code
    /\ UNCHANGED <<register_a, register_x, register_y, status, program_counter,
                   stack_pointer, memory, panic, overflow_checks, loaded, steps,
                   pokes, loaded_program, stack_value,
                   last_jsr>>

LoadAndRun(bytes) ==
    /\ run_state = "Idle"
    /\ ~loaded
    /\ \E c \in {load_and_run(Cpu, bytes)} :
            /\ Becomes(c)
            /\ run_state' = IF c.panic # NoPanic THEN "Panicked" ELSE "Running"
    /\ hook' = "none"
    /\ last_call' = "load_and_run"
    /\ last_code' = 0 - 1
    /\ loaded' = TRUE
    /\ loaded_program' = bytes
    /\ UNCHANGED <<overflow_checks, steps, pokes, stack_value,
                   last_jsr>>

RunWithCallback(h) ==
    /\ run_state = "Idle"
    /\ steps = 0
    /\ run_state' = "Running"
    /\ hook' = h
    /\ last_call' = "run_with_callback"
    /\ last_code' = 0 - 1
    /\ pre' = Cpu
    /\ prev_code' = last_code
    /\ UNCHANGED <<register_a, register_x, register_y, status, program_counter,
                   stack_pointer, memory, panic, overflow_checks, loaded, steps,
                   pokes, loaded_program, stack_value,
                   last_jsr>>

Step ==
    /\ run_state = "Running"
    /\ steps < MaxSteps
    /\ \E c \in {iteration(hook, Cpu)} :
            /\ Becomes(c)
            /\ run_state' = Outcome(c)
    /\ \E hooked \in {invoke(hook, Cpu)} :
            last_code' = IF hooked.panic # NoPanic THEN 0 - 1
                         ELSE mem_read(hooked, hooked.program_counter)
    /\ last_call' = "step"
    /\ last_jsr' = IF last_code' = 32 /\ panic' = NoPanic
                   THEN [at |-> program_counter, sp |-> stack_pointer]
                   ELSE last_jsr
    /\ steps' = steps + 1
    /\ UNCHANGED <<overflow_checks, loaded, pokes, loaded_program, hook,
                   stack_value>>

Next ==
    \/ \E bytes \in Programs : Load(bytes)
    \/ Reset
    \/ \E p \in FieldPokes : Assign(p[1], p[2])
    \/ \E p \in MemoryPokes : MemWrite(p[1], p[2])
    \/ Run
    \/ Step

Spec == Init /\ [][Next]_vars

(***************************************************************************)
(* load_and_run of a straight-line program on a new CPU; the loop goes on  *)
(* until it returns or panics.                                             *)
(***************************************************************************)
NextRun ==
    \/ \E bytes \in StraightLinePrograms : LoadAndRun(bytes)
    \/ Step

\* the loop of a running CPU goes on to its next iteration
Iteration == run_state = "Running" /\ steps < MaxSteps /\ steps' = steps + 1

SpecRun == Init /\ [][NextRun]_vars /\ WF_steps(Iteration)

(***************************************************************************)
(* The 16-bit stack operations, as JSR, RTS and RTI call them, from every  *)
(* stack pointer: a push of a value, then a pop.                           *)
(***************************************************************************)
StackValues ==
    {hi * 256 + lo : hi \in ByteSamples, lo \in ByteSamples} \cup {4660, 1537}

\* a new CPU whose stack_pointer field the caller has assigned
InitStack ==
    /\ register_a = new.register_a
    /\ register_x = new.register_x
    /\ register_y = new.register_y
    /\ stack_pointer \in 0..255
    /\ program_counter = new.program_counter
    /\ status = new.status
    /\ memory = new.memory
    /\ run_state = "Idle"
    /\ panic = NoPanic
    /\ overflow_checks \in BOOLEAN
    /\ pre = new
    /\ last_call = "assign"
    /\ last_code = 0 - 1
    /\ prev_code = 0 - 1
    /\ steps = 0
    /\ pokes = 1
    /\ loaded = FALSE
    /\ loaded_program = <<>>
    /\ hook = "none"
    /\ stack_value = 0 - 1
    /\ last_jsr = NoJsr

StackPushU16(data) ==
    /\ last_call = "assign"
    /\ Becomes(stack_push_u16(Cpu, data))
    /\ last_call' = "stack_push_u16"
    /\ stack_value' = data
    /\ UNCHANGED <<run_state, overflow_checks, last_code, loaded, steps, pokes,
                   loaded_program, hook, last_jsr>>

StackPopU16 ==
    /\ last_call = "stack_push_u16"
    /\ \E p \in {stack_pop_u16(Cpu)} :
            /\ Becomes(IF p.value < 0 THEN Fail(Cpu, p.value) ELSE p.cpu)
            /\ stack_value' = p.value
    /\ last_call' = "stack_pop_u16"
    /\ UNCHANGED <<run_state, overflow_checks, last_code, loaded, steps, pokes,
                   loaded_program, hook, last_jsr>>

NextStack ==
    \/ \E data \in StackValues : StackPushU16(data)
    \/ StackPopU16

SpecStack == InitStack /\ [][NextStack]_vars

(***************************************************************************)
(* A caller that loads a program, resets and calls run_with_callback.      *)
(***************************************************************************)
\* BRK ; LDA #5 ; BRK ; TXA ; TXA ; LDA #1 ; ADC #1 ; TXA ; TAY ; BRK
CallbackPrograms ==
    {<<0>>, <<169, 5, 0>>, <<138, 138>>, <<169, 1, 105, 1>>, <<138, 168, 0>>,
     <<234, 234, 234>>}

NextCallback ==
    \/ \E bytes \in CallbackPrograms : Load(bytes)
    \/ Reset
    \/ \E h \in Callbacks : RunWithCallback(h)
    \/ Step

SpecCallback == Init /\ [][NextCallback]_vars

(***************************************************************************)
(* A CPU inside run, after load(program), reset and assignments of a and   *)
(* s to register_a and status and of sp to stack_pointer.                  *)
(***************************************************************************)
Prepared(bytes, a, s, sp) ==
    /\ register_a = a
    /\ register_x = reset(new).register_x
    /\ register_y = reset(new).register_y
    /\ stack_pointer = sp
    /\ program_counter = ProgramBase
    /\ status = s
    /\ memory = load(new, bytes).memory
    /\ run_state = "Running"
    /\ panic = NoPanic
    /\ overflow_checks \in BOOLEAN
    /\ pre = Cpu
    /\ last_call = "run"
    /\ last_code = 0 - 1
    /\ prev_code = 0 - 1
    /\ loaded = TRUE
    /\ steps = 0
    /\ pokes = 3
    /\ loaded_program = bytes
    /\ hook = "none"
    /\ stack_value = 0 - 1
    /\ last_jsr = NoJsr

\* ADC #b from every accumulator, operand and carry-in
InitAdc ==
    \E a \in 0..255, b \in 0..255, k \in 0..1 :
        Prepared(<<105, b>>, a, InitialStatus + k, STACK_RESET)

SpecAdc == InitAdc /\ [][Step]_vars

\* SBC #b from every accumulator, operand and carry
InitSbc ==
    \E a \in 0..255, b \in 0..255, k \in 0..1 :
        Prepared(<<233, b>>, a, InitialStatus + k, STACK_RESET)

SpecSbc == InitSbc /\ [][Step]_vars

\* LDX #v ; INX ; INX, LDY #v ; INY, LDX #v ; DEX, LDY #v ; DEY and
\* LDA #v ; STA $10 ; INC $10 / DEC $10, for every byte v
IncDecPrograms ==
    UNION {{<<162, v, 232, 232>>, <<160, v, 200>>, <<162, v, 202>>,
            <<160, v, 136>>, <<169, v, 133, 16, 230, 16>>,
            <<169, v, 133, 16, 198, 16>>} : v \in 0..255}

InitIncDec ==
    \E bytes \in IncDecPrograms : Prepared(bytes, 0, InitialStatus, STACK_RESET)

SpecIncDec == InitIncDec /\ [][Step]_vars

\* CMP #m from every accumulator and operand, and CMP #m, LDX #r ; CPX #m
\* and LDY #r ; CPY #m from sampled values with the flags clear and set
CompareSamples == {0, 1, 2, 63, 64, 127, 128, 129, 192, 254, 255}

InitCompare ==
    \/ \E r \in 0..255, m \in 0..255 :
           Prepared(<<201, m>>, r, InitialStatus, STACK_RESET)
    \/ \E r \in CompareSamples, m \in CompareSamples, s \in {InitialStatus, 231} :
           \/ Prepared(<<201, m>>, r, s, STACK_RESET)
           \/ Prepared(<<162, r, 224, m>>, 0, s, STACK_RESET)
           \/ Prepared(<<160, r, 192, m>>, 0, s, STACK_RESET)

SpecCompare == InitCompare /\ [][Step]_vars

\* every opcode of the table but BRK, followed by two operand bytes, run
\* with the flags clear and with the flags set
AdvancePrograms ==
    {<<code, operands[1], operands[2]>> :
        code \in OPCODES_MAP \ {0},
        operands \in {<<16, 2>>, <<255, 255>>, <<3, 6>>}}

InitAdvance ==
    \E bytes \in AdvancePrograms, s \in {InitialStatus, 231} :
        Prepared(bytes, 128, s, STACK_RESET)

SpecAdvance == InitAdvance /\ [][Step]_vars

\* subroutine calls from every stack pointer:
\*   JSR $0604 ; BRK ; RTS
\*   JSR $0605 ; INX ; BRK ; LDA #7 ; PHA ; PLA ; RTS
\*   JSR $0604 ; BRK ; PHA ; RTS                     (stack pointer moved)
\*   JSR $0604 ; BRK ; PLA ; LDA #0 ; PHA ; RTS      (low byte overwritten)
\*   NOP ; JSR $0605 ; BRK ; RTS
\*   JSR $0601 ; RTS                                 (target A + 1)
\*   JSR $0604 ; BRK ; JSR $0608 ; RTS ; RTS         (nested)
SubroutinePrograms ==
    {<<32, 4, 6, 0, 96>>,
     <<32, 5, 6, 232, 0, 169, 7, 72, 104, 96>>,
     <<32, 4, 6, 0, 72, 96>>,
     <<32, 4, 6, 0, 104, 169, 0, 72, 96>>,
     <<234, 32, 5, 6, 0, 96>>,
     <<32, 1, 6, 96>>,
     <<32, 4, 6, 0, 32, 8, 6, 96, 96>>}

InitSubroutine ==
    \E bytes \in SubroutinePrograms, sp \in 0..255 :
        Prepared(bytes, 0, InitialStatus, sp)

SpecSubroutine == InitSubroutine /\ [][Step]_vars

\* bytes the caller has written with mem_write at both ends of the stack
\* page and next to it in page 0 and page 2
MarkedMemory ==
    (0 :> 160) @@ (255 :> 161) @@ (256 :> 176) @@ (257 :> 177) @@ (258 :> 178)
    @@ (509 :> 189) @@ (510 :> 190) @@ (511 :> 191) @@ (512 :> 192)
    @@ (513 :> 193)

\* PHA, PHP, PLA, PLP, RTS, RTI, JSR and TXS, alone and in sequences
StackPrograms ==
    {<<72>>, <<8>>, <<104>>, <<40>>, <<96>>, <<64>>, <<32, 4, 6, 0, 96>>,
     <<72, 8, 104, 40>>, <<104, 104, 72, 8>>, <<8, 72, 64>>, <<72, 72, 96>>,
     <<162, 0, 154, 72, 104>>, <<162, 255, 154, 104, 72>>,
     <<162, 0, 154, 8, 40>>, <<162, 255, 154, 64>>, <<162, 254, 154, 96>>,
     <<162, 1, 154, 32, 8, 6, 0, 0, 96>>}

InitConfined ==
    \E bytes \in StackPrograms, sp \in 0..255 :
        /\ register_a = 90
        /\ register_x = reset(new).register_x
        /\ register_y = reset(new).register_y
        /\ stack_pointer = sp
        /\ program_counter = ProgramBase
        /\ status = InitialStatus
        /\ memory = load([new EXCEPT !.memory = MarkedMemory], bytes).memory
        /\ run_state = "Running"
        /\ panic = NoPanic
        /\ overflow_checks \in BOOLEAN
        /\ pre = Cpu
        /\ last_call = "run"
        /\ last_code = 0 - 1
        /\ prev_code = 0 - 1
        /\ loaded = TRUE
        /\ steps = 0
        /\ pokes = 10
        /\ loaded_program = bytes
        /\ hook = "none"
        /\ stack_value = 0 - 1
        /\ last_jsr = NoJsr

SpecConfined == InitConfined /\ [][Step]_vars

\* PHP ; PLP from every status byte and every stack pointer
InitPhp ==
    \E s \in 0..255, sp \in 0..255 : Prepared(<<8, 40>>, 0, s, sp)

SpecPhp == InitPhp /\ [][Step]_vars

(***************************************************************************)
(* Properties.  After a step, pre is the CPU before the step, so the       *)
(* instruction sits at A = pre.program_counter and its handler saw the     *)
(* program counter A + 1.                                                  *)
(***************************************************************************)

\* C1: after ADC the Carry flag is set iff a + b + c >= 256, for the
\* accumulator a, operand b and carry-in c before the instruction.
AdcCarryIsNinthBit ==
    (last_call = "step" /\ panic = NoPanic
        /\ last_code \in {105, 101, 117, 109, 125, 121, 97, 113})
    => LET b == operand([pre EXCEPT !.program_counter = (@ + 1) % U16],
                        OpMode(last_code))
           c == pre.status % 2
       IN  (status % 2 = 1) <=> (pre.register_a + b + c >= 256)

\* C2: after a flag-updating instruction Zero is set iff the byte r it wrote
\* to its destination is 0 and Negative is set iff bit 7 of r is 1.
ZeroNegativeDescribeResult ==
    (last_call = "step" /\ panic = NoPanic)
    => LET addr == get_operand_address(
                       [pre EXCEPT !.program_counter = (@ + 1) % U16],
                       OpMode(last_code))
           z == (status \div 2) % 2 = 1
           n == status \div 128 = 1
           describes(r) == (z <=> r = 0) /\ (n <=> r >= 128)
       IN  /\ last_code \in {169, 165, 181, 173, 189, 185, 161, 177,
                             138, 152, 104, 74, 10, 42, 106,
                             41, 37, 53, 45, 61, 57, 33, 49,
                             73, 69, 85, 77, 93, 89, 65, 81,
                             9, 5, 21, 13, 29, 25, 1, 17,
                             105, 101, 117, 109, 125, 121, 97, 113,
                             233, 229, 245, 237, 253, 249, 225, 241}
                => describes(register_a)
           /\ last_code \in {162, 166, 182, 174, 190, 170, 186, 232, 202}
                => describes(register_x)
           /\ last_code \in {160, 164, 180, 172, 188, 168, 200, 136}
                => describes(register_y)
           /\ last_code \in {6, 22, 14, 30, 70, 86, 78, 94, 38, 54, 46, 62,
                             102, 118, 110, 126, 230, 246, 238, 254,
                             198, 214, 206, 222}
                => describes(MemAt(memory, addr))

\* C3: no memory access at an address 0x0000..0xFFFF ends in a bounds error.
MemoryAccessIsTotal == panic.kind # "index out of bounds"

\* C4: an instruction leaves the Unused bit of the status register set, and
\* PLP and RTI set it whatever byte they pop.
UnusedStaysSet ==
    (last_call = "step" /\ panic = NoPanic
        /\ ((pre.status \div 32) % 2 = 1 \/ last_code \in {40, 64}))
    => (status \div 32) % 2 = 1

\* C5: after JMP absolute at A the program counter is the 16-bit operand.
JmpLandsOnOperand ==
    (last_call = "step" /\ panic = NoPanic /\ last_code = 76)
    => program_counter = MemAt(pre.memory, pre.program_counter + 1)
                         + 256 * MemAt(pre.memory, pre.program_counter + 2)

\* C6: after a branch at A with displacement byte d the program counter is
\* A + 2 + signed(d) (mod 65536) when the condition holds, A + 2 when not.
BranchLandsOnTarget ==
    (last_call = "step" /\ panic = NoPanic /\ last_code \in BranchCodes)
    => LET A == pre.program_counter
           d == MemAt(pre.memory, A + 1)
           signed == IF d >= 128 THEN d - 256 ELSE d
           flag(f) == (pre.status \div f) % 2 = 1
           taken == CASE last_code = 208 -> ~flag(2)
                      [] last_code = 240 -> flag(2)
                      [] last_code = 176 -> flag(1)
                      [] last_code = 144 -> ~flag(1)
                      [] last_code = 112 -> flag(64)
                      [] last_code = 80 -> ~flag(64)
                      [] last_code = 48 -> flag(128)
                      [] last_code = 16 -> ~flag(128)
       IN  program_counter = IF taken THEN (A + 2 + signed) % U16
                             ELSE (A + 2) % U16

\* C7: reset leaves A = X = Y = 0, SP = 0xFD, status 0x24 and the program
\* counter read from 0xFFFC/0xFFFD, and a second reset changes nothing.
ResetPostcondition ==
    last_call = "reset"
    => /\ panic = NoPanic
       /\ register_a = 0 /\ register_x = 0 /\ register_y = 0
       /\ stack_pointer = 253
       /\ status = 36
       /\ program_counter = MemAt(pre.memory, 65532)
                            + 256 * MemAt(pre.memory, 65533)
       /\ reset(Cpu) = Cpu

ResetFromUsedCpu ==
    /\ last_call = "reset"
    /\ pre.register_a # 0 /\ pre.register_x # 0
    /\ pre.stack_pointer # 253 /\ pre.status # 36
    /\ pre.program_counter # program_counter
    /\ program_counter = 1536

\* C8: program counter arithmetic never ends in an overflow error, and RTS
\* popping 0xFFFF sets the program counter to 0 and the run continues.
PcArithmeticWraps ==
    /\ panic.kind # "attempt to add with overflow"
    /\ (last_call = "step" /\ last_code = 96
          /\ MemAt(pre.memory, STACK + ((pre.stack_pointer + 1) % 256)) = 255
          /\ MemAt(pre.memory, STACK + ((pre.stack_pointer + 2) % 256)) = 255)
       => (program_counter = 0 /\ run_state = "Running")

\* C9: PHP pushes the status with bits 4 and 5 set and leaves the live
\* status alone; PLP right after PHP restores Carry, Zero, Interrupt-Disable,
\* Decimal, Overflow and Negative, leaves Break and Unused clear and the
\* stack pointer as before PHP.
PhpPlpRoundTrip ==
    [][/\ (last_call' = "step" /\ last_code' = 8 /\ panic' = NoPanic)
          => /\ status' = status
             /\ stack_pointer' = (stack_pointer - 1) % 256
             /\ LET pushed == MemAt(memory', STACK + stack_pointer)
                IN  /\ (pushed \div 16) % 4 = 3
                    /\ pushed % 16 = status % 16
                    /\ pushed \div 64 = status \div 64
       /\ (last_call = "step" /\ last_code = 8 /\ panic = NoPanic
             /\ last_call' = "step" /\ last_code' = 40 /\ panic' = NoPanic)
          => /\ status' % 16 = pre.status % 16
             /\ status' \div 64 = pre.status \div 64
             /\ (status' \div 16) % 4 = 0
             /\ stack_pointer' = pre.stack_pointer
      ]_vars

PlpAfterPhp ==
    /\ last_call = "step" /\ last_code = 40 /\ prev_code = 8
    /\ panic = NoPanic
    /\ pre.status = 255
    /\ status = 207

\* C10: after ADC the accumulator is (a + b + c) mod 256 and Overflow is set
\* iff ((b XOR result) AND (result XOR a) AND 0x80) != 0, i.e. iff the sign
\* bit of the result differs from the sign bits of both b and a.
AdcResultAndOverflow ==
    (last_call = "step" /\ panic = NoPanic
        /\ last_code \in {105, 101, 117, 109, 125, 121, 97, 113})
    => LET a == pre.register_a
           b == operand([pre EXCEPT !.program_counter = (@ + 1) % U16],
                        OpMode(last_code))
           c == pre.status % 2
           result == (a + b + c) % 256
           sign(x) == x \div 128
       IN  /\ register_a = result
           /\ ((status \div 64) % 2 = 1)
              <=> (sign(b) # sign(result) /\ sign(result) # sign(a))

AdcOverflowed ==
    /\ last_call = "step" /\ panic = NoPanic /\ last_code = 105
    /\ (status \div 64) % 2 = 1
    /\ pre.register_a >= 128
    /\ register_a < 128

\* C11: SBC with operand b leaves the same accumulator and the same Carry,
\* Overflow, Zero and Negative flags as ADC with operand (-b - 1) mod 256
\* executed from the same state.
SbcIsAdcOfComplement ==
    (last_call = "step" /\ panic = NoPanic
        /\ last_code \in {233, 229, 245, 237, 253, 249, 225, 241})
    => LET fetched == [pre EXCEPT !.program_counter = (@ + 1) % U16]
           b == operand(fetched, OpMode(last_code))
           complement == (0 - b - 1) % 256
           with_adc == adc([fetched EXCEPT !.memory =
                               MemPut(@, fetched.program_counter, complement)],
                           "Immediate")
       IN  /\ register_a = with_adc.register_a
           /\ status % 4 = with_adc.status % 4
           /\ status \div 64 = with_adc.status \div 64

SbcBorrowed ==
    /\ last_call = "step" /\ panic = NoPanic /\ last_code = 233
    /\ pre.register_a = 0
    /\ pre.status % 2 = 0
    /\ MemAt(pre.memory, pre.program_counter + 1) = 0
    /\ register_a = 255
    /\ status \div 128 = 1

\* C12: after JMP indirect with pointer P the program counter is
\* mem[P] | (mem[P AND 0xFF00] << 8) when the low byte of P is 0xFF, and
\* mem[P] | (mem[P + 1] << 8) otherwise.
JmpIndirectLandsOnPointee ==
    (last_call = "step" /\ panic = NoPanic /\ last_code = 108)
    => LET A == pre.program_counter
           P == MemAt(pre.memory, A + 1) + 256 * MemAt(pre.memory, A + 2)
           high == IF P % 256 = 255 THEN P - 255 ELSE P + 1
       IN  program_counter = MemAt(pre.memory, P) + 256 * MemAt(pre.memory, high)

\* JMP ($30FF) took its high byte from 0x3000
JmpIndirectAcrossPage ==
    /\ last_call = "step" /\ panic = NoPanic /\ last_code = 108
    /\ MemAt(pre.memory, pre.program_counter + 1) = 255
    /\ program_counter = 16512

\* C13: the run ends normally in exactly the steps that fetch opcode 0x00,
\* and such a step leaves A, X, Y, the status, the stack pointer and the
\* memory as they were; a run that never fetches 0x00 never becomes Halted.
HaltOnlyOnBrk ==
    [][/\ last_call' = "step"
          => ((run_state' = "Halted") <=> (last_code' = 0))
       /\ (run_state # "Halted" /\ run_state' = "Halted")
          => last_call' = "step"
       /\ (last_call' = "step" /\ last_code' = 0)
          => /\ register_a' = register_a
             /\ register_x' = register_x
             /\ register_y' = register_y
             /\ status' = status
             /\ stack_pointer' = stack_pointer
             /\ memory' = memory]_vars

HaltedAfterInstructions ==
    /\ run_state = "Halted" /\ last_call = "step" /\ last_code = 0
    /\ steps = 4
    /\ register_x = 193

\* JMP $0600 at 0x0600 is still running after MaxSteps steps
SelfLoopStillRunning ==
    /\ run_state = "Running" /\ steps = MaxSteps
    /\ last_code = 76 /\ program_counter = pre.program_counter

\* C14: load_and_run of a program of fall-through instructions ended by a
\* BRK byte eventually reaches Halted, having executed each instruction once
\* in address order; [0xA9,0xC0,0xAA,0xE8,0x00] ends with register_x = 0xC1
\* and register_a = 0xC0, [0xA9,0x05,0x00] with register_a = 5 and Zero and
\* Negative clear.
StraightLineHalts ==
    /\ (run_state = "Running") ~> (run_state = "Halted")
    /\ [](last_call = "step"
            => pre.program_counter
               = ProgramBase + Offset(loaded_program, 1, steps))
    /\ [](run_state = "Halted"
            => /\ steps = InstructionCount(loaded_program, 1)
               /\ loaded_program = <<169, 192, 170, 232, 0>>
                  => register_x = 193 /\ register_a = 192
               /\ loaded_program = <<169, 5, 0>>
                  => /\ register_a = 5
                     /\ (status \div 2) % 2 = 0
                     /\ status \div 128 = 0)

\* C15: load(program) sets mem[0x0600 + i] = program[i], mem[0xFFFC] = 0x00
\* and mem[0xFFFD] = 0x06 and leaves every other memory byte and all
\* registers unchanged; reset changes no memory byte; after load then reset
\* the program counter is 0x0600; a byte 0x55 written at 0x10 before the
\* program is loaded and run is what LDA $10 loads.
LoadAndResetFrame ==
    /\ (last_call = "load" /\ panic = NoPanic)
       => /\ \A addr \in DOMAIN memory \cup DOMAIN pre.memory
                         \cup (1536 .. 1535 + Len(loaded_program))
                         \cup {65532, 65533} :
                 MemAt(memory, addr)
                 = IF addr >= 1536 /\ addr < 1536 + Len(loaded_program)
                   THEN loaded_program[addr - 1535]
                   ELSE IF addr = 65532 THEN 0
                   ELSE IF addr = 65533 THEN 6
                   ELSE MemAt(pre.memory, addr)
          /\ <<register_a, register_x, register_y, stack_pointer,
                program_counter, status>>
             = <<pre.register_a, pre.register_x, pre.register_y,
                 pre.stack_pointer, pre.program_counter, pre.status>>
    /\ (last_call = "reset" /\ panic = NoPanic)
       => /\ memory = pre.memory
          /\ loaded => program_counter = 1536
    /\ (last_call = "step" /\ panic = NoPanic /\ last_code = 165
            /\ MemAt(pre.memory, pre.program_counter + 1) = 16
            /\ MemAt(pre.memory, 16) = 85)
       => register_a = 85

PokedByteIsLoaded ==
    /\ last_call = "step" /\ last_code = 165
    /\ loaded_program = <<165, 16, 0>>
    /\ MemAt(memory, 16) = 85
    /\ register_a = 85

\* C16: stack_push_u16(v) stores the high byte of v at 0x0100 + s and the
\* low byte at 0x0100 + ((s - 1) mod 256), and the stack_pop_u16() that
\* follows returns v and leaves the stack pointer at s, for every stack
\* pointer s, 0x00 and 0x01 included.
StackRoundTrip ==
    /\ [](last_call = "stack_push_u16"
            => /\ MemAt(memory, 256 + pre.stack_pointer) = stack_value \div 256
               /\ MemAt(memory, 256 + ((pre.stack_pointer + 255) % 256))
                  = stack_value % 256
               /\ stack_pointer = (pre.stack_pointer + 254) % 256)
    /\ [][(last_call = "stack_push_u16" /\ last_call' = "stack_pop_u16")
            => /\ stack_value' = stack_value
               /\ stack_pointer' = pre.stack_pointer
               /\ panic' = NoPanic]_vars

StackWrappedAndCameBack ==
    /\ last_call = "stack_pop_u16"
    /\ stack_value = 4660
    /\ pre.stack_pointer = 255
    /\ stack_pointer = 1
    /\ MemAt(memory, 256) = 52
    /\ MemAt(memory, 257) = 18

\* C17: INX, INY and INC leave (value + 1) mod 256 and DEX, DEY and DEC
\* (value - 1) mod 256 in their register or memory byte, without an error at
\* 0xFF and 0x00; the Zero flag is set exactly when the result is 0x00; two
\* INX from register_x = x leave (x + 2) mod 256.
IncDecWrap ==
    LET up(v) == IF v = 255 THEN 0 ELSE v + 1
        down(v) == IF v = 0 THEN 255 ELSE v - 1
        zero == (status \div 2) % 2 = 1
        addr == MemAt(pre.memory, pre.program_counter + 1)
    IN  /\ (last_call = "step" /\ last_code \in {232, 200, 202, 136, 230, 198})
           => panic = NoPanic
        /\ (last_call = "step" /\ last_code = 232)
           => register_x = up(pre.register_x) /\ (zero <=> register_x = 0)
        /\ (last_call = "step" /\ last_code = 200)
           => register_y = up(pre.register_y) /\ (zero <=> register_y = 0)
        /\ (last_call = "step" /\ last_code = 202)
           => register_x = down(pre.register_x) /\ (zero <=> register_x = 0)
        /\ (last_call = "step" /\ last_code = 136)
           => register_y = down(pre.register_y) /\ (zero <=> register_y = 0)
        /\ (last_call = "step" /\ last_code = 230)
           => /\ MemAt(memory, addr) = up(MemAt(pre.memory, addr))
              /\ zero <=> MemAt(memory, addr) = 0
        /\ (last_call = "step" /\ last_code = 198)
           => /\ MemAt(memory, addr) = down(MemAt(pre.memory, addr))
              /\ zero <=> MemAt(memory, addr) = 0
        /\ (last_call = "step" /\ last_code = 232 /\ prev_code = 232
                /\ steps = 3 /\ loaded_program[1] = 162)
           => register_x = (loaded_program[2] + 2) % 256

InxWrappedToOne ==
    /\ last_call = "step" /\ last_code = 232 /\ prev_code = 232
    /\ loaded_program = <<162, 255, 232, 232>>
    /\ register_x = 1
    /\ (status \div 2) % 2 = 0

\* C18: a step that fetches a byte without an entry in the opcode table ends
\* the run with an error naming that byte, leaves A, X, Y, the status, the
\* stack pointer and the memory as they were before the fetch, and is the
\* last step of the run.
UnknownOpcodeIsFatal ==
    /\ []((last_call = "step" /\ last_code >= 0 /\ last_code \notin OPCODES_MAP)
            => /\ run_state = "Panicked"
               /\ panic = [kind |-> "OpCode is not recognzed.",
                           code |-> last_code]
               /\ <<register_a, register_x, register_y, status, stack_pointer,
                     memory>>
                  = <<pre.register_a, pre.register_x, pre.register_y,
                      pre.status, pre.stack_pointer, pre.memory>>)
    /\ [][run_state = "Panicked" => last_call' # "step"]_vars

UnknownOpcodeAfterLda ==
    /\ last_call = "step" /\ last_code = 255
    /\ run_state = "Panicked"
    /\ panic.code = 255
    /\ register_a = 5
    /\ steps = 2

\* C19: run_with_callback invokes the callback once in every iteration of
\* the loop, the one that fetches the halting BRK included, before the fetch,
\* and the iteration fetches and executes in the state the callback left: a
\* callback that increments register_x has run as often as the loop has
\* iterated, TXA copies the incremented value, and an opcode the callback
\* writes at the program counter is the one fetched and executed.
CallbackBeforeEveryFetch ==
    /\ (hook = "count" /\ last_call = "step" /\ panic = NoPanic)
       => /\ register_x = pre.register_x + 1
          /\ register_x = steps
          /\ last_code = 138 => register_a = pre.register_x + 1
    /\ (hook = "patch" /\ last_call = "step" /\ panic = NoPanic)
       => /\ last_code = 232
          /\ MemAt(memory, pre.program_counter) = 232
          /\ register_x = pre.register_x + 1
          /\ program_counter = pre.program_counter + 1
          /\ run_state = "Running"

CallbackCountedBrkIteration ==
    /\ hook = "count" /\ run_state = "Halted"
    /\ loaded_program = <<138, 168, 0>>
    /\ steps = 3
    /\ register_x = 3
    /\ register_a = 1
    /\ register_y = 1

\* C20: after CMP, CPX or CPY with register value r and operand m, Carry is
\* set iff m <= r, Zero iff r = m, Negative iff bit 7 of (r - m) mod 256 is
\* 1, and the registers, the Overflow flag and the memory are unchanged.
CompareSetsFlagsOnly ==
    (last_call = "step" /\ panic = NoPanic
        /\ last_code \in {201, 197, 213, 205, 221, 217, 193, 209,
                          192, 196, 204, 224, 228, 236})
    => LET r == IF last_code \in {192, 196, 204} THEN pre.register_y
                ELSE IF last_code \in {224, 228, 236} THEN pre.register_x
                ELSE pre.register_a
           m == operand([pre EXCEPT !.program_counter = (@ + 1) % U16],
                        OpMode(last_code))
           difference == IF r >= m THEN r - m ELSE r - m + 256
       IN  /\ (status % 2 = 1) <=> (m <= r)
           /\ ((status \div 2) % 2 = 1) <=> (r = m)
           /\ (status \div 128 = 1) <=> (difference >= 128)
           /\ (status \div 64) % 2 = (pre.status \div 64) % 2
           /\ <<register_a, register_x, register_y, stack_pointer, memory>>
              = <<pre.register_a, pre.register_x, pre.register_y,
                  pre.stack_pointer, pre.memory>>

CmpOfEqualValues ==
    /\ last_call = "step" /\ panic = NoPanic /\ last_code = 201
    /\ register_a = 128
    /\ MemAt(memory, pre.program_counter + 1) = 128
    /\ pre.status = 231
    /\ status % 4 = 3
    /\ status \div 128 = 0

\* C21: a step that executes an instruction which does not redirect control
\* flow (anything but a jump, JSR, RTS, RTI, BRK or a branch whose condition
\* holds), fetched at A with encoded length L, ends with the program counter
\* at A + L.
FallThroughAdvance ==
    LET flag(f) == (pre.status \div f) % 2 = 1
        taken == CASE last_code = 208 -> ~flag(2)
                   [] last_code = 240 -> flag(2)
                   [] last_code = 176 -> flag(1)
                   [] last_code = 144 -> ~flag(1)
                   [] last_code = 112 -> flag(64)
                   [] last_code = 80 -> ~flag(64)
                   [] last_code = 48 -> flag(128)
                   [] last_code = 16 -> ~flag(128)
                   [] OTHER -> FALSE
    IN  (last_call = "step" /\ panic = NoPanic /\ hook = "none"
            /\ last_code \in OPCODES_MAP \ (JumpCodes \cup {0, 96, 64})
            /\ ~taken)
        => program_counter = (pre.program_counter + OpLen(last_code)) % U16

\* STA $0210 at 0x0600 ended at 0x0603
AdvancedPastThreeBytes ==
    /\ last_call = "step" /\ panic = NoPanic /\ last_code = 141
    /\ pre.program_counter = 1536
    /\ program_counter = 1539
    /\ MemAt(memory, 528) = 128

\* C22: JSR at A, with A + 3 inside the memory, stores the high byte of
\* A + 2 at 0x0100 + s and the low byte one below and leaves the stack
\* pointer at s - 2 (mod 256); an RTS executed later with the stack pointer
\* at that value and those two bytes still in place ends with the program
\* counter at A + 3 and the stack pointer at s.
JsrRtsRoundTrip ==
    /\ (last_call = "step" /\ last_code = 32 /\ pre.program_counter + 3 < MemorySize)
       => LET A == pre.program_counter
              s == pre.stack_pointer
          IN  /\ panic = NoPanic
              /\ MemAt(memory, 256 + s) = (A + 2) \div 256
              /\ MemAt(memory, 256 + ((s + 255) % 256)) = (A + 2) % 256
              /\ stack_pointer = (s + 254) % 256
              /\ last_jsr = [at |-> A, sp |-> s]
    /\ (last_call = "step" /\ last_code = 96 /\ pre.panic = NoPanic
            /\ last_jsr # NoJsr
            /\ last_jsr.at + 3 < MemorySize
            /\ pre.stack_pointer = (last_jsr.sp + 254) % 256
            /\ MemAt(pre.memory, 256 + last_jsr.sp) = (last_jsr.at + 2) \div 256
            /\ MemAt(pre.memory, 256 + ((last_jsr.sp + 255) % 256))
               = (last_jsr.at + 2) % 256)
       => /\ panic = NoPanic
          /\ program_counter = last_jsr.at + 3
          /\ stack_pointer = last_jsr.sp

\* the subroutine LDA #7 ; PHA ; PLA ; RTS returned with the stack wrapped
ReturnedAcrossStackWrap ==
    /\ last_call = "step" /\ last_code = 96 /\ steps = 5
    /\ last_jsr = [at |-> 1536, sp |-> 0]
    /\ pre.stack_pointer = 254
    /\ program_counter = 1539
    /\ stack_pointer = 0

\* C23: PHA, PHP and JSR write only at 0x0100 + SP (JSR also one below,
\* wrapping inside the page) and then decrement the stack pointer modulo
\* 256; PLA, PLP, RTS and RTI increment it modulo 256 and take their bytes
\* from 0x0100 + SP; TXS only sets the stack pointer.  A push at SP = 0x00
\* leaves 0xFF, a pop at SP = 0xFF reads 0x0100 and leaves 0x00, and no
\* stack access is out of bounds or outside 0x0100..0x01FF.
StackStaysInItsPage ==
    LET s == pre.stack_pointer
        at(k) == 256 + ((s + k) % 256)
        popped(k) == MemAt(pre.memory, at(k))
        only_written(addrs) ==
            \A addr \in DOMAIN memory \cup DOMAIN pre.memory :
                addr \notin addrs => MemAt(memory, addr) = MemAt(pre.memory, addr)
        executed(code) == last_call = "step" /\ last_code = code
    IN  /\ stack_pointer \in 0..255
        /\ (last_call = "step" /\ last_code \in {72, 8, 104, 40, 96, 64, 154})
           => panic.kind # "index out of bounds"
        /\ executed(72)
           => /\ panic = NoPanic
              /\ MemAt(memory, at(0)) = pre.register_a
              /\ only_written({at(0)})
              /\ stack_pointer = (s + 255) % 256
        /\ executed(8)
           => /\ panic = NoPanic
              /\ MemAt(memory, at(0))
                 = (pre.status \div 64) * 64 + 48 + (pre.status % 16)
              /\ only_written({at(0)})
              /\ stack_pointer = (s + 255) % 256
        /\ (executed(32) /\ panic = NoPanic)
           => /\ only_written({at(0), at(255)})
              /\ stack_pointer = (s + 254) % 256
        /\ executed(104)
           => /\ panic = NoPanic
              /\ register_a = popped(1)
              /\ memory = pre.memory
              /\ stack_pointer = (s + 1) % 256
        /\ executed(40)
           => /\ panic = NoPanic
              /\ status = (popped(1) \div 64) * 64 + (popped(1) % 16)
              /\ memory = pre.memory
              /\ stack_pointer = (s + 1) % 256
        /\ (executed(96) /\ panic = NoPanic)
           => /\ program_counter = (popped(1) + 256 * popped(2) + 1) % U16
              /\ memory = pre.memory
              /\ stack_pointer = (s + 2) % 256
        /\ executed(64)
           => /\ panic = NoPanic
              /\ status = (popped(1) \div 64) * 64 + 32 + (popped(1) % 16)
              /\ program_counter = popped(2) + 256 * popped(3)
              /\ memory = pre.memory
              /\ stack_pointer = (s + 3) % 256
        /\ executed(154)
           => /\ panic = NoPanic
              /\ stack_pointer = pre.register_x
              /\ memory = pre.memory

\* PLA at SP = 0xFF took the byte at 0x0100, not the one at 0x0200
PoppedAtTopOfPage ==
    /\ last_call = "step" /\ last_code = 104 /\ panic = NoPanic
    /\ pre.stack_pointer = 255
    /\ stack_pointer = 0
    /\ register_a = 176
    /\ MemAt(memory, 512) = 192

====
